---- MODULE Spec2Model ----
(***************************************************************************)
(* A model of OneLineSolver (archive/one_line_solver.py): the memoised     *)
(* top-down search that narrows one line of a coloured nonogram.           *)
(*                                                                         *)
(* A cell is an integer bitmask: bit c set means colour c is still         *)
(* possible.  Colour 0 is white (background).  A line is indexed from 0,   *)
(* as in the source; a groups sequence is a sequence of <<length, colour>> *)
(* pairs (groups[g + 1][1] is the source's groups[g][0]).                  *)
(***************************************************************************)
EXTENDS Integers, Sequences, FiniteSets

VARIABLES
    line_len,     \* the constructor's argument
    cache,        \* self.cache: the call count that last computed [X][Y]
    calc_fill,    \* self.calc_fill: the memoised answer of [X][Y]
    cache_cnt,    \* self.cache_cnt
    result_cell,  \* self.result_cell
    groups,       \* the groups argument of the current / last call
    cells,        \* the caller's line (mutated in place by update_state)
    cells_in,     \* the line as it was when the last call was entered
    ret           \* what the last call returned (FALSE before any call)

vars == <<line_len, cache, calc_fill, cache_cnt, result_cell,
          groups, cells, cells_in, ret>>

----------------------------------------------------------------------------
(* Bounds of the model *)

\* largest line length of the exhaustive specification
MaxN == 3
\* largest number of groups in a clue
MaxGroups == 2
\* largest length of a group
MaxGroupLen == 3
\* calls of update_state on one line
MaxCalls == 2
\* largest length of a blank line
MaxBlankN == 5
\* largest line length of a reused engine
MaxReuseN == 2
\* calls of update_state on a reused engine
MaxReuseCalls == 2

\* the colour of a white cell (can_fill places colour 0 as background)
White == 0
\* the colours groups are drawn from; two suffice to have neighbouring
\* groups of equal and of different colour
GroupColors == {1, 2}
Colors == {White} \cup GroupColors

----------------------------------------------------------------------------
(* Bitmasks *)

\* 1 << clr
Shl(clr) == 2 ^ clr

\* (mask & (1 << clr)) != 0
HasBit(mask, clr) == (mask \div Shl(clr)) % 2 = 1

\* mask | (1 << clr)
OrBit(mask, clr) == IF HasBit(mask, clr) THEN mask ELSE mask + Shl(clr)

RECURSIVE SumBits(_)
SumBits(S) == IF S = {} THEN 0
              ELSE LET c == CHOOSE x \in S : TRUE
                   IN  Shl(c) + SumBits(S \ {c})

\* a cell on which every colour is still possible
AllColors == SumBits(Colors)

Masks == 0 .. AllColors

\* len(cells)
LenOf(f) == Cardinality(DOMAIN f)

----------------------------------------------------------------------------
(* The engine *)

\* OneLineSolver.__init__
NewEngine(n) ==
    [ cache       |-> [x \in 0 .. n |-> [y \in 0 .. n |-> 0]],
      calc_fill   |-> [x \in 0 .. n |-> [y \in 0 .. n |-> 0]],
      cache_cnt   |-> 0,
      result_cell |-> [i \in 0 .. n - 1 |-> 0] ]

\* can_place_color without the test of the cells' bits
can_place_color_NoMask(cs, clr, l_bound, r_bound) ==
    r_bound < LenOf(cs)

\* OneLineSolver.can_place_color
can_place_color(cs, clr, l_bound, r_bound) ==
    IF r_bound >= LenOf(cs) THEN FALSE
    ELSE \A i \in l_bound .. r_bound : HasBit(cs[i], clr)

\* set_place_color that marks the first cell of the interval only
set_place_color_First(e, clr, l_bound, r_bound) ==
    [e EXCEPT !.result_cell =
        [i \in DOMAIN e.result_cell |->
            IF i = l_bound /\ i <= r_bound
            THEN OrBit(e.result_cell[i], clr)
            ELSE e.result_cell[i]]]

\* OneLineSolver.set_place_color, on the engine record e
set_place_color(e, clr, l_bound, r_bound) ==
    [e EXCEPT !.result_cell =
        [i \in DOMAIN e.result_cell |->
            IF i >= l_bound /\ i <= r_bound
            THEN OrBit(e.result_cell[i], clr)
            ELSE e.result_cell[i]]]

\* a memo test that takes any stamp, of this call or of an earlier one
MemoHit_AnyStamp(e, cur_group, cur_cell) ==
    e.cache[cur_group][cur_cell] # 0

\* the memo test of can_fill: was [cur_group][cur_cell] computed in this call
MemoHit(e, cur_group, cur_cell) ==
    e.cache[cur_group][cur_cell] = e.cache_cnt

\* the memoisation at the end of can_fill
Memoize(e, cur_group, cur_cell, answer) ==
    [e EXCEPT !.calc_fill[cur_group][cur_cell] = answer,
              !.cache[cur_group][cur_cell] = e.cache_cnt]

\* no white cell between neighbouring groups, whatever their colours
NeedWhite_Never(gs, cur_group) == FALSE

\* a white cell after every group that has a successor
NeedWhite_Always(gs, cur_group) == cur_group + 1 < Len(gs)

\* whether a white cell must follow group cur_group
NeedWhite(gs, cur_group) ==
    /\ cur_group + 1 < Len(gs)
    /\ gs[cur_group + 2][2] = gs[cur_group + 1][2]

\* OneLineSolver.can_fill: returns the engine after the call and the answer
RECURSIVE can_fill(_, _, _, _, _)
can_fill(e, gs, cs, cur_group, cur_cell) ==
    IF cur_cell = LenOf(cs)
    THEN [e |-> e, answer |-> IF cur_group = Len(gs) THEN 1 ELSE 0]
    ELSE IF MemoHit(e, cur_group, cur_cell)
    THEN [e |-> e, answer |-> e.calc_fill[cur_group][cur_cell]]
    ELSE
    LET \* try to place a white cell
        w_ok  == can_place_color(cs, White, cur_cell, cur_cell)
        w_rec == IF w_ok THEN can_fill(e, gs, cs, cur_group, cur_cell + 1)
                 ELSE [e |-> e, answer |-> 0]
        w_yes == w_ok /\ w_rec.answer = 1
        e1    == IF w_yes
                 THEN set_place_color(w_rec.e, White, cur_cell, cur_cell)
                 ELSE w_rec.e
        \* try to place current-group-colour cells
        has_g == cur_group < Len(gs)
        cur_color == gs[cur_group + 1][2]
        l_bound == cur_cell
        r_bound == cur_cell + gs[cur_group + 1][1] - 1
        can_place0 == can_place_color(cs, cur_color, l_bound, r_bound)
        place_white == can_place0 /\ NeedWhite(gs, cur_group)
        can_place == IF place_white
                     THEN can_place_color(cs, White, r_bound + 1, r_bound + 1)
                     ELSE can_place0
        next_cell == IF place_white THEN r_bound + 2 ELSE r_bound + 1
        g_try == has_g /\ can_place
        g_rec == IF g_try THEN can_fill(e1, gs, cs, cur_group + 1, next_cell)
                 ELSE [e |-> e1, answer |-> 0]
        g_yes == g_try /\ g_rec.answer = 1
        e2    == IF g_yes
                 THEN LET p == set_place_color(g_rec.e, cur_color,
                                               l_bound, r_bound)
                      IN  IF place_white
                          THEN set_place_color(p, White,
                                               r_bound + 1, r_bound + 1)
                          ELSE p
                 ELSE g_rec.e
        answer == IF w_yes \/ g_yes THEN 1 ELSE 0
    IN  [e |-> Memoize(e2, cur_group, cur_cell, answer), answer |-> answer]

\* update_state that sets the call count instead of incrementing it
BeginCall_SetCount(e, cs) ==
    [e EXCEPT !.cache_cnt = 1,
              !.result_cell = [i \in DOMAIN cs |-> 0]]

\* the first two statements of update_state
BeginCall(e, cs) ==
    [e EXCEPT !.cache_cnt = e.cache_cnt + 1,
              !.result_cell = [i \in DOMAIN cs |-> 0]]

\* a write-back that does not look at the answer of the search
Commit_Always(cs, res, ok) ==
    [i \in DOMAIN cs |-> res[i]]

\* the write-back of update_state
Commit(cs, res, ok) ==
    IF ok THEN [i \in DOMAIN cs |-> res[i]] ELSE cs

\* OneLineSolver.update_state: the engine, the line and the value returned
UpdateState(e, gs, cs) ==
    LET r  == can_fill(BeginCall(e, cs), gs, cs, 0, 0)
        ok == r.answer # 0
    IN  [e |-> r.e, cells |-> Commit(cs, r.e.result_cell, ok), ret |-> ok]

\* update_state has been called on the engine
Called == cache_cnt > 0

Engine == [cache |-> cache, calc_fill |-> calc_fill,
           cache_cnt |-> cache_cnt, result_cell |-> result_cell]

----------------------------------------------------------------------------
(* What a valid completion of a line is (the contract of the solver) *)

\* the length and the colour of group j (1-based) of a clue
GLen(gs, j) == gs[j][1]
GClr(gs, j) == gs[j][2]

\* the separators a clue needs: one between neighbours of the same colour
Separators(gs) ==
    Cardinality({j \in 1 .. Len(gs) - 1 : GClr(gs, j) = GClr(gs, j + 1)})

RECURSIVE SumLen(_, _)
SumLen(gs, j) == IF j = 0 THEN 0 ELSE GLen(gs, j) + SumLen(gs, j - 1)

\* the sum of the group lengths plus the mandatory separators
MinSpan(gs) == SumLen(gs, Len(gs)) + Separators(gs)

\* the placements of the groups in a line of n cells: s[j] is the first cell
\* of group j; groups are in order, do not overlap, and neighbours of the
\* same colour have a cell between them
Placements(gs, n) ==
    {s \in [1 .. Len(gs) -> 0 .. n - 1] :
        /\ \A j \in 1 .. Len(gs) : s[j] + GLen(gs, j) <= n
        /\ \A j \in 1 .. Len(gs) - 1 :
              s[j] + GLen(gs, j)
                + (IF GClr(gs, j) = GClr(gs, j + 1) THEN 1 ELSE 0) <= s[j + 1]}

\* the colour a placement gives cell i: white outside the groups
ColorAt(gs, s, i) ==
    IF \E j \in 1 .. Len(gs) : s[j] <= i /\ i < s[j] + GLen(gs, j)
    THEN GClr(gs, CHOOSE j \in 1 .. Len(gs) :
                      s[j] <= i /\ i < s[j] + GLen(gs, j))
    ELSE White

\* the valid completions of the line cs: every cell gets an allowed colour
Completions(gs, cs) ==
    {s \in Placements(gs, LenOf(cs)) :
        \A i \in DOMAIN cs : HasBit(cs[i], ColorAt(gs, s, i))}

\* the colours some valid completion gives cell i, as a bitmask
Reachable(gs, cs, i) ==
    SumBits({c \in Colors : \E s \in Completions(gs, cs) : ColorAt(gs, s, i) = c})

\* mask a is a subset of mask b
SubMask(a, b) == \A c \in Colors : HasBit(a, c) => HasBit(b, c)

OneBit(m) == Cardinality({c \in Colors : HasBit(m, c)}) = 1

----------------------------------------------------------------------------
(* Inputs *)

Lines(n) == [0 .. n - 1 -> Masks]

\* a line on which nothing is known yet: every colour possible on every cell
Blank(n) == [i \in 0 .. n - 1 |-> AllColors]

Groups == (1 .. MaxGroupLen) \X GroupColors

\* the clues of at most k groups
RECURSIVE SeqsUpTo(_)
SeqsUpTo(k) ==
    IF k = 0 THEN {<< >>}
    ELSE LET shorter == SeqsUpTo(k - 1)
         IN  shorter \cup {Append(gs, g) :
                              gs \in {p \in shorter : Len(p) = k - 1},
                              g \in Groups}

GroupSeqs == SeqsUpTo(MaxGroups)

\* the clues tried on every line of n cells: those that overflow the line by
\* at most one cell (a longer overflow fails at the same bound test of
\* can_place_color), with the first group of colour 1 (renaming the two group
\* colours, in the clue and in the line, changes nothing in the solver)
Clues(n) ==
    {gs \in GroupSeqs :
        /\ MinSpan(gs) <= n + 1
        /\ Len(gs) > 0 => GClr(gs, 1) = 1}

\* the lines and clues an engine is reused on: one group colour, and cells
\* that are white, coloured or undecided
ReuseMasks == {Shl(White), Shl(1), Shl(White) + Shl(1)}
ReuseLines(n) == [0 .. n - 1 -> ReuseMasks]
ReuseClues ==
    {gs \in GroupSeqs :
        /\ \A j \in 1 .. Len(gs) : GClr(gs, j) = 1
        /\ MinSpan(gs) <= MaxReuseN + 1}

----------------------------------------------------------------------------
(* The state machine *)

\* the state OneLineSolver.__init__ leaves
Fresh ==
    /\ cache = NewEngine(line_len).cache
    /\ calc_fill = NewEngine(line_len).calc_fill
    /\ cache_cnt = NewEngine(line_len).cache_cnt
    /\ result_cell = NewEngine(line_len).result_cell
    /\ ret = FALSE

\* a call update_state(gs, cs) on the engine
Call(gs, cs, limit) ==
    /\ cache_cnt < limit
    /\ LET r == UpdateState(Engine, gs, cs)
       IN  /\ cache' = r.e.cache
           /\ calc_fill' = r.e.calc_fill
           /\ cache_cnt' = r.e.cache_cnt
           /\ result_cell' = r.e.result_cell
           /\ cells' = r.cells
           /\ ret' = r.ret
    /\ groups' = gs
    /\ cells_in' = cs
    /\ UNCHANGED line_len

(* One line and its clue: the caller calls update_state on them, again and *)
(* again.                                                                  *)

Init ==
    /\ line_len \in 1 .. MaxN
    /\ Fresh
    /\ groups \in Clues(line_len)
    /\ cells \in Lines(line_len)
    /\ cells_in = cells

update_state == Call(groups, cells, MaxCalls)

Next == update_state

Spec == Init /\ [][Next]_vars

(* The same, from a blank line: the first pass of a puzzle solver. *)

InitBlank ==
    /\ line_len \in 1 .. MaxBlankN
    /\ Fresh
    /\ groups \in GroupSeqs
    /\ cells = Blank(line_len)
    /\ cells_in = cells

SpecBlank == InitBlank /\ [][Next]_vars

(* One engine used for many lines of the same length: each call is given   *)
(* some clue and some line.                                                *)

InitReuse ==
    /\ line_len \in 1 .. MaxReuseN
    /\ Fresh
    /\ groups = << >>
    /\ cells = Blank(line_len)
    /\ cells_in = cells

update_state_reuse ==
    \E gs \in ReuseClues, cs \in ReuseLines(line_len) :
        Call(gs, cs, MaxReuseCalls)

NextReuse == update_state_reuse

SpecReuse == InitReuse /\ [][NextReuse]_vars

----------------------------------------------------------------------------
(* The search space of can_fill *)

\* the placements can_fill accepts from (cur_group, cur_cell), each the
\* sequence of the first cells of the groups still to place: the white
\* branch and the group branch of the search, without the memo
RECURSIVE Accepted(_, _, _, _)
Accepted(gs, cs, cur_group, cur_cell) ==
    IF cur_cell = LenOf(cs)
    THEN IF cur_group = Len(gs) THEN {<< >>} ELSE {}
    ELSE
    LET white == IF can_place_color(cs, White, cur_cell, cur_cell)
                 THEN Accepted(gs, cs, cur_group, cur_cell + 1)
                 ELSE {}
        r_bound == cur_cell + gs[cur_group + 1][1] - 1
        place_white == NeedWhite(gs, cur_group)
        can_place ==
            /\ can_place_color(cs, gs[cur_group + 1][2], cur_cell, r_bound)
            /\ place_white =>
                  can_place_color(cs, White, r_bound + 1, r_bound + 1)
        next_cell == IF place_white THEN r_bound + 2 ELSE r_bound + 1
        group == IF cur_group < Len(gs) /\ can_place
                 THEN {<<cur_cell>> \o p :
                          p \in Accepted(gs, cs, cur_group + 1, next_cell)}
                 ELSE {}
    IN  white \cup group

----------------------------------------------------------------------------
(* Claims *)

\* a line on which every cell has one colour left and these colours are a
\* valid completion of the clue
Finished(gs, cs) ==
    /\ \A i \in DOMAIN cs : OneBit(cs[i])
    /\ Completions(gs, cs) # {}

\* a cell with more than one colour left
Open(m) == Cardinality({c \in Colors : HasBit(m, c)}) > 1

\* C1: when update_state returns true, bit c of cell i of the line is set
\* iff some valid completion of the input line gives cell i colour c.
C1_ExactNarrowing ==
    (Called /\ ret) =>
        \A i \in DOMAIN cells : cells[i] = Reachable(groups, cells_in, i)

\* a successful call on a clue of two groups that narrowed some cell and
\* left another one open
C1_Witness ==
    /\ Called /\ ret
    /\ Len(groups) = 2
    /\ cells # cells_in
    /\ \E i \in DOMAIN cells : Open(cells[i])

C3_AllOrNothing ==
    (Called /\ ~ret) => cells = cells_in

\* a failed call on a line with an open cell, after the search went past
\* its first state
C3_Witness ==
    /\ Called /\ ~ret
    /\ \E i \in DOMAIN cells : Open(cells[i])
    /\ \E x \in 0 .. line_len, y \in 1 .. line_len : cache[x][y] = cache_cnt

C5_Monotonic ==
    Called => \A i \in DOMAIN cells : SubMask(cells[i], cells_in[i])

\* a call that cleared a bit of a cell
C5_Witness ==
    /\ Called /\ ret
    /\ \E i \in DOMAIN cells :
          cells[i] # cells_in[i] /\ SubMask(cells[i], cells_in[i])

\* the blank line of 5 cells and the clue [(3, 1)]
Scenario1 ==
    /\ Called
    /\ line_len = 5
    /\ groups = << <<3, 1>> >>
    /\ cells_in = Blank(5)

\* C6 as stated: the call returns true, three consecutive cells are exactly
\* {colour 1} and the other cells keep the white bit.
C6_Original ==
    Scenario1 =>
        /\ ret
        /\ \E k \in 0 .. 2 :
              \A i \in DOMAIN cells :
                  IF i >= k /\ i <= k + 2
                  THEN cells[i] = Shl(1)
                  ELSE HasBit(cells[i], White)

\* C6 as amended: the call returns true, the middle cell alone is exactly
\* {colour 1}, and every other cell keeps both white and colour 1.
C6_MiddleCellOnly ==
    Scenario1 =>
        /\ ret
        /\ cells[2] = Shl(1)
        /\ \A i \in DOMAIN cells \ {2} : cells[i] = Shl(White) + Shl(1)

\* the call of scenario 1 has returned true
C6_Witness == Scenario1 /\ ret

\* the blank line of 4 cells and the clue [(1, 1), (1, 2)]
Scenario3 ==
    /\ Called
    /\ line_len = 4
    /\ groups = << <<1, 1>>, <<1, 2>> >>
    /\ cells_in = Blank(4)

\* C7 as stated: the call returns true, cell 0 loses colour 2, the last cell
\* loses colour 1, and every completion the search accepts has a white cell
\* between the two groups.
C7_Original ==
    Scenario3 =>
        /\ ret
        /\ ~HasBit(cells[0], 2)
        /\ ~HasBit(cells[3], 1)
        /\ \A p \in Accepted(groups, cells_in, 0, 0) :
              p[2] > p[1] + GLen(groups, 1)

\* C7 as amended: the call returns true, cell 0 loses colour 2, the last
\* cell loses colour 1, and the search also accepts completions in which the
\* colour-2 group directly follows the colour-1 group (so that cell 1 keeps
\* colour 2, which only the completion with the groups on cells 0 and 1
\* gives it).
C7_AdjacentAccepted ==
    Scenario3 =>
        /\ ret
        /\ ~HasBit(cells[0], 2)
        /\ ~HasBit(cells[3], 1)
        /\ HasBit(cells[1], 2)
        /\ \E p \in Accepted(groups, cells_in, 0, 0) :
              p[2] = p[1] + GLen(groups, 1)

\* the call of scenario 3 has returned true and narrowed the line
C7_Witness == Scenario3 /\ ret /\ cells # cells_in

\* C8: when the groups and separators fill the line exactly, a successful
\* call leaves exactly one colour on every cell.
C8_LengthConservation ==
    (Called /\ ret /\ MinSpan(groups) = line_len) =>
        \A i \in DOMAIN cells : OneBit(cells[i])

\* a successful call on two groups of one colour that fill the line with
\* their separator, on a line that had an open cell
C8_Witness ==
    /\ Called /\ ret
    /\ MinSpan(groups) = line_len
    /\ Separators(groups) = 1
    /\ \E i \in DOMAIN cells_in : Open(cells_in[i])

\* C9: update_state returns False on a finished line, and True on any other
\* solvable line.
C9_FinishedReturnsFalse ==
    Called =>
        ret = (Completions(groups, cells_in) # {}
                  /\ ~Finished(groups, cells_in))

\* C10: a call on an engine that has been used returns the value and leaves
\* the line that the same call on a new engine does.
C10_FreshEquivalent ==
    Called =>
        LET fresh == UpdateState(NewEngine(line_len), groups, cells_in)
        IN  ret = fresh.ret /\ cells = fresh.cells

\* after a later call, the memo still holds an entry an earlier call stamped,
\* whose answer is not the one of the current clue and line
C10_Witness ==
    /\ cache_cnt >= 2
    /\ \E x \in 0 .. line_len, y \in 0 .. line_len - 1 :
          /\ cache[x][y] > 0 /\ cache[x][y] < cache_cnt
          /\ x <= Len(groups)
          /\ (calc_fill[x][y] = 1) # (Accepted(groups, cells_in, x, y) # {})

====
